---- MODULE Spec2Model ----
(***************************************************************************)
(* Model of fix-date-parsing.py: the one-shot patcher that reads           *)
(* merge-stamp.js, splices a two-line fix in front of the month-parsing    *)
(* line, replaces that line, writes the file back and reports the outcome  *)
(* through a printed line, a boolean and the process exit status.          *)
(*                                                                         *)
(* Text is modelled as a sequence of one-character strings, so splitting,  *)
(* joining and the substring test are computed character by character.     *)
(***************************************************************************)
EXTENDS Integers, Sequences, FiniteSets, TLC

VARIABLES
  exists,    \* does a file exist at file_path
  disk,      \* the characters stored at file_path (<<>> when it does not exist)
  pc,        \* position of the script within one run
  content,   \* local `content` of fix_date_parsing
  lines,     \* local `lines` of fix_date_parsing
  matchIdx,  \* index at which the scan loop broke out (0: it never did)
  err,       \* the exception caught by the handler ("none": nothing raised)
  out,       \* lines printed on standard output during the run
  result,    \* value returned by fix_date_parsing ("unset" before it returns)
  exitCode,  \* status handed to sys.exit (-1 before the process exits)
  log,       \* file operations performed during the run, in order
  orig,      \* what was at file_path when the run started
  origExists,
  runs,      \* number of runs of the script started so far
  hist,      \* hist[1]: the initial file; hist[k+1]: the file after run k
  rets       \* rets[k]: value returned by fix_date_parsing in the k-th run

vars == << exists, disk, pc, content, lines, matchIdx, err, out, result,
           exitCode, log, orig, origExists, runs, hist, rets >>

----------------------------------------------------------------------------
(* Bounds of the model *)

\* longest input file, in lines
MaxLines == 3

\* number of times the script is run in a row on the same path
MaxRuns == 2

----------------------------------------------------------------------------
(* The literals of the script *)

NL == "\n"

\* "const monthNum = months[month.toLowerCase()] || '01';"
MatchLiteral ==
  << "c","o","n","s","t"," ","m","o","n","t","h","N","u","m"," ","="," ","m",
     "o","n","t","h","s","[","m","o","n","t","h",".","t","o","L","o","w","e",
     "r","C","a","s","e","(",")","]"," ","|","|"," ","'","0","1","'",";" >>

\* "      // Clean up potential spacing in month names"
InsertionLiteral0 ==
  << " "," "," "," "," "," ","/","/"," ","C","l","e","a","n"," ","u","p"," ",
     "p","o","t","e","n","t","i","a","l"," ","s","p","a","c","i","n","g"," ",
     "i","n"," ","m","o","n","t","h"," ","n","a","m","e","s" >>

\* "      month = month.replace(/\s+/g, '').toLowerCase();"
InsertionLiteral1 ==
  << " "," "," "," "," "," ","m","o","n","t","h"," ","="," ","m","o","n","t",
     "h",".","r","e","p","l","a","c","e","(","/","\\","s","+","/","g",",",
     " ","'","'",")",".","t","o","L","o","w","e","r","C","a","s","e","(",")",
     ";" >>

\* "      const monthNum = months[month] || '01';"
ReplacementLiteral ==
  << " "," "," "," "," "," ","c","o","n","s","t"," ","m","o","n","t","h","N",
     "u","m"," ","="," ","m","o","n","t","h","s","[","m","o","n","t","h","]",
     " ","|","|"," ","'","0","1","'",";" >>

\* "const monthnum = months[month.tolowercase()] || '01';"
MatchLiteralFolded ==
  << "c","o","n","s","t"," ","m","o","n","t","h","n","u","m"," ","="," ","m",
     "o","n","t","h","s","[","m","o","n","t","h",".","t","o","l","o","w","e",
     "r","c","a","s","e","(",")","]"," ","|","|"," ","'","0","1","'",";" >>

----------------------------------------------------------------------------
(* Text helpers: str.split, str.join, the `in` test, list.insert *)

Min(S) == CHOOSE x \in S : \A y \in S : x <= y

\* content.splitlines() in place of content.split('\n'): no empty last line
\* after a final line break
RECURSIVE SplitDroppingLast(_)
SplitDroppingLast(s) ==
  LET nl == { k \in 1..Len(s) : s[k] = NL }
  IN  IF s = << >> THEN << >>
      ELSE IF nl = {} THEN << s >>
      ELSE LET k == Min(nl)
           IN  << SubSeq(s, 1, k - 1) >>
                 \o SplitDroppingLast(SubSeq(s, k + 1, Len(s)))

\* content.split('\n')
RECURSIVE Split(_)
Split(s) ==
  LET nl == { k \in 1..Len(s) : s[k] = NL }
  IN  IF nl = {} THEN << s >>
      ELSE LET k == Min(nl)
           IN  << SubSeq(s, 1, k - 1) >> \o Split(SubSeq(s, k + 1, Len(s)))

\* '\n'.join(lines)
RECURSIVE Join(_)
Join(ls) ==
  IF ls = << >> THEN << >>
  ELSE IF Len(ls) = 1 THEN ls[1]
  ELSE ls[1] \o << NL >> \o Join(Tail(ls))

\* needle in line
Contains(line, needle) ==
  \E k \in 1..(Len(line) - Len(needle) + 1) :
     \A j \in 1..Len(needle) : line[k + j - 1] = needle[j]

\* lower-casing of the letters that occur in the literals
Lower(c) ==
  CASE c = "N" -> "n" [] c = "L" -> "l" [] c = "C" -> "c" [] OTHER -> c

\* the test made on lower-cased text: needle.lower() in line.lower()
MatchesIgnoringCase(line) ==
  Contains([ k \in 1..Len(line) |-> Lower(line[k]) ],
           [ k \in 1..Len(MatchLiteral) |-> Lower(MatchLiteral[k]) ])

\* the test made with == in place of in
MatchesExactly(line) == line = MatchLiteral

\* the condition of the if statement inside the scan loop
Matches(line) == Contains(line, MatchLiteral)

\* an insert that lands one position late
InsertAfter(ls, i, x) ==
  IF i + 1 >= Len(ls) THEN Append(ls, x)
  ELSE SubSeq(ls, 1, i + 1) \o << x >> \o SubSeq(ls, i + 2, Len(ls))

\* list.insert(i, x) with a 0-based position i
Insert(ls, i, x) ==
  IF i >= Len(ls) THEN Append(ls, x)
  ELSE SubSeq(ls, 1, i) \o << x >> \o SubSeq(ls, i + 1, Len(ls))

\* lines[i] = x with a 0-based position i
SetItem(ls, i, x) == [ ls EXCEPT ![i + 1] = x ]

\* the overwrite aimed at lines[i + 1], forgetting the second insert
PatchAtWrongSlot(ls, i) ==
  LET l1 == Insert(ls, i, InsertionLiteral0)
      l2 == Insert(l1, i + 1, InsertionLiteral1)
  IN  SetItem(l2, i + 1, ReplacementLiteral)

\* the two inserts without the overwrite of the matching line
PatchAtInsertOnly(ls, i) ==
  LET l1 == Insert(ls, i, InsertionLiteral0)
  IN  Insert(l1, i + 1, InsertionLiteral1)

\* the body of the if statement: two inserts and one overwrite, at the
\* 0-based position i of the matching line
PatchAt(ls, i) ==
  LET l1 == Insert(ls, i, InsertionLiteral0)
      l2 == Insert(l1, i + 1, InsertionLiteral1)
  IN  SetItem(l2, i + 2, ReplacementLiteral)

\* the loop without its break: it goes on over the list it has changed
RECURSIVE ScanFromNoBreak(_, _)
ScanFromNoBreak(ls, i) ==
  IF i >= Len(ls) THEN [ lines |-> ls, at |-> 0 ]
  ELSE IF Matches(ls[i + 1])
       THEN LET rest == ScanFromNoBreak(PatchAt(ls, i), i + 1)
            IN  [ lines |-> rest.lines,
                  at |-> IF rest.at = 0 THEN i + 1 ELSE rest.at ]
  ELSE ScanFromNoBreak(ls, i + 1)

\* the for loop over enumerate(lines), from 0-based position i on; gives the
\* list after the loop and the 1-based position of the break (0: no break)
RECURSIVE ScanFrom(_, _)
ScanFrom(ls, i) ==
  IF i >= Len(ls) THEN [ lines |-> ls, at |-> 0 ]
  ELSE IF Matches(ls[i + 1]) THEN [ lines |-> PatchAt(ls, i), at |-> i + 1 ]
  ELSE ScanFrom(ls, i + 1)

Scan(ls) == ScanFrom(ls, 0)

\* what an interrupted f.write may leave in the truncated file: nothing,
\* part of the text, or all of it
LeftBehind(text) ==
  { SubSeq(text, 1, k) : k \in { 0, Len(text) \div 2, Len(text) } }

----------------------------------------------------------------------------
(* Input files *)

IndentedMatch == << " ", " " >> \o MatchLiteral

InputLines ==
  { << >>, << "a" >>, MatchLiteral, IndentedMatch, MatchLiteralFolded }

\* the text of a file whose lines are ls, written out character by character
RECURSIVE TextOf(_)
TextOf(ls) ==
  IF Len(ls) = 1 THEN ls[1]
  ELSE TextOf(SubSeq(ls, 1, Len(ls) - 1)) \o << NL >> \o ls[Len(ls)]

\* the file of three lines "a", the month-parsing line, "b"
ScenarioInput == << << "a" >>, MatchLiteral, << "b" >> >>

\* every file of up to MaxLines of the lines above, and the three-line file
InputFiles ==
  { TextOf(ls) : ls \in UNION { [ 1..n -> InputLines ] : n \in 1..MaxLines } }
    \cup { TextOf(ScenarioInput) }

----------------------------------------------------------------------------
(* The script *)

Init ==
  /\ exists \in BOOLEAN
  /\ disk \in (IF exists THEN InputFiles ELSE { << >> })
  /\ pc = "open_read"
  /\ content = << >>
  /\ lines = << >>
  /\ matchIdx = 0
  /\ err = "none"
  /\ out = << >>
  /\ result = "unset"
  /\ exitCode = -1
  /\ log = << >>
  /\ orig = disk
  /\ origExists = exists
  /\ runs = 1
  /\ hist = << disk >>
  /\ rets = << >>

\* line 11: open(file_path, 'r') succeeds
OpenRead ==
  /\ pc = "open_read"
  /\ exists
  /\ log' = Append(log, "open_r")
  /\ pc' = "read"
  /\ UNCHANGED << exists, disk, content, lines, matchIdx, err, out, result,
                  exitCode, orig, origExists, runs, hist, rets >>

\* the fault of the read swallowed, the run going on with empty content
OpenReadFaultSwallowed ==
  /\ pc = "open_read"
  /\ err' \in (IF exists THEN { "PermissionError" }
                         ELSE { "FileNotFoundError" })
  /\ pc' = "split"
  /\ UNCHANGED << exists, disk, content, lines, matchIdx, out, result,
                  exitCode, log, orig, origExists, runs, hist, rets >>

\* line 11: open(file_path, 'r') raises; nothing was opened
OpenReadFault ==
  /\ pc = "open_read"
  /\ err' \in (IF exists THEN { "PermissionError" }
                         ELSE { "FileNotFoundError" })
  /\ pc' = "except"
  /\ UNCHANGED << exists, disk, content, lines, matchIdx, out, result,
                  exitCode, log, orig, origExists, runs, hist, rets >>

\* line 12: content = f.read(), then the with block closes the file
Read ==
  /\ pc = "read"
  /\ content' = disk
  /\ log' = log \o << "read", "close_r" >>
  /\ pc' = "split"
  /\ UNCHANGED << exists, disk, lines, matchIdx, err, out, result, exitCode,
                  orig, origExists, runs, hist, rets >>

\* line 12: f.read() raises (bytes that do not decode, I/O error); the with
\* block still closes the file
ReadFault ==
  /\ pc = "read"
  /\ err' \in { "UnicodeDecodeError", "OSError" }
  /\ log' = Append(log, "close_r")
  /\ pc' = "except"
  /\ UNCHANGED << exists, disk, content, lines, matchIdx, out, result,
                  exitCode, orig, origExists, runs, hist, rets >>

\* line 15: lines = content.split('\n')
SplitLines ==
  /\ pc = "split"
  /\ lines' = Split(content)
  /\ pc' = "scan"
  /\ UNCHANGED << exists, disk, content, matchIdx, err, out, result, exitCode,
                  log, orig, origExists, runs, hist, rets >>

\* lines 18-25: the scan loop
ScanAndPatch ==
  /\ pc = "scan"
  /\ LET r == Scan(lines)
     IN  /\ lines' = r.lines
         /\ matchIdx' = r.at
  /\ pc' = "open_write"
  /\ UNCHANGED << exists, disk, content, err, out, result, exitCode, log,
                  orig, origExists, runs, hist, rets >>

\* line 28: open(file_path, 'w') succeeds and truncates the file
OpenWrite ==
  /\ pc = "open_write"
  /\ disk' = << >>
  /\ exists' = TRUE
  /\ log' = Append(log, "open_w")
  /\ pc' = "write"
  /\ UNCHANGED << content, lines, matchIdx, err, out, result, exitCode, orig,
                  origExists, runs, hist, rets >>

\* line 28: open(file_path, 'w') raises; the file is not touched
OpenWriteFault ==
  /\ pc = "open_write"
  /\ err' = "PermissionError"
  /\ pc' = "except"
  /\ UNCHANGED << exists, disk, content, lines, matchIdx, out, result,
                  exitCode, log, orig, origExists, runs, hist, rets >>

\* line 29: f.write('\n'.join(lines)), then the with block closes the file
Write ==
  /\ pc = "write"
  /\ disk' = Join(lines)
  /\ log' = log \o << "write", "close_w" >>
  /\ pc' = "print_ok"
  /\ UNCHANGED << exists, content, lines, matchIdx, err, out, result,
                  exitCode, orig, origExists, runs, hist, rets >>

\* line 29: the write raises (disk full, I/O error); the with block closes
\* the file, which holds whatever reached it
WriteFault ==
  /\ pc = "write"
  /\ disk' \in LeftBehind(Join(lines))
  /\ err' = "OSError"
  /\ log' = Append(log, "close_w")
  /\ pc' = "except"
  /\ UNCHANGED << exists, content, lines, matchIdx, out, result, exitCode,
                  orig, origExists, runs, hist, rets >>

\* lines 31-32: print the success line, return True
ReturnTrue ==
  /\ pc = "print_ok"
  /\ out' = Append(out, "Successfully updated")
  /\ result' = "True"
  /\ pc' = "returned"
  /\ UNCHANGED << exists, disk, content, lines, matchIdx, err, log, exitCode,
                  orig, origExists, runs, hist, rets >>

\* the handler without its return: the run falls through to the success
\* line and to return True
ReturnFalseFallsThrough ==
  /\ pc = "except"
  /\ out' = out \o << "Error updating file", "Successfully updated" >>
  /\ result' = "True"
  /\ pc' = "returned"
  /\ UNCHANGED << exists, disk, content, lines, matchIdx, err, log, exitCode,
                  orig, origExists, runs, hist, rets >>

\* lines 34-36: the handler prints the error line, return False
ReturnFalse ==
  /\ pc = "except"
  /\ out' = Append(out, "Error updating file")
  /\ result' = "False"
  /\ pc' = "returned"
  /\ UNCHANGED << exists, disk, content, lines, matchIdx, err, log, exitCode,
                  orig, origExists, runs, hist, rets >>

\* sys.exit(success): True exits with status 1, False with status 0
ExitWithBool ==
  /\ pc = "returned"
  /\ exitCode' = (IF result = "True" THEN 1 ELSE 0)
  /\ hist' = Append(hist, disk)
  /\ rets' = Append(rets, result)
  /\ pc' = "exited"
  /\ UNCHANGED << exists, disk, content, lines, matchIdx, err, out, result,
                  log, orig, origExists, runs >>

\* lines 40-41: sys.exit(0 if success else 1)
Exit ==
  /\ pc = "returned"
  /\ exitCode' = (IF result = "True" THEN 0 ELSE 1)
  /\ hist' = Append(hist, disk)
  /\ rets' = Append(rets, result)
  /\ pc' = "exited"
  /\ UNCHANGED << exists, disk, content, lines, matchIdx, err, out, result,
                  log, orig, origExists, runs >>

\* lines 38-40: the script is started again on the same path
RunAgain ==
  /\ pc = "exited"
  /\ runs < MaxRuns
  /\ runs' = runs + 1
  /\ pc' = "open_read"
  /\ content' = << >>
  /\ lines' = << >>
  /\ matchIdx' = 0
  /\ err' = "none"
  /\ out' = << >>
  /\ result' = "unset"
  /\ exitCode' = -1
  /\ log' = << >>
  /\ orig' = disk
  /\ origExists' = exists
  /\ UNCHANGED << exists, disk, hist, rets >>

Next ==
  \/ OpenRead
  \/ OpenReadFault
  \/ Read
  \/ ReadFault
  \/ SplitLines
  \/ ScanAndPatch
  \/ OpenWrite
  \/ OpenWriteFault
  \/ Write
  \/ WriteFault
  \/ ReturnTrue
  \/ ReturnFalse
  \/ Exit
  \/ RunAgain

Spec == Init /\ [][Next]_vars

----------------------------------------------------------------------------
(* Vocabulary of the properties *)

\* the line sequence the run started from
InputLinesOfRun == Split(orig)

\* positions (from 1) of the lines that contain MatchLiteral
MatchSet(ls) == { k \in 1..Len(ls) : Contains(ls[k], MatchLiteral) }

\* positions (from 1) of the lines that are MatchLiteral, character for
\* character
EqualSet(ls) == { k \in 1..Len(ls) : ls[k] = MatchLiteral }

\* ls with the line at position k (from 1) patched
PatchedAt(ls, k) ==
  SubSeq(ls, 1, k - 1)
    \o << InsertionLiteral0, InsertionLiteral1, ReplacementLiteral >>
    \o SubSeq(ls, k + 1, Len(ls))

\* the run read, scanned and wrote without a fault
Succeeded == result = "True"

Has(sq, x) == \E k \in 1..Len(sq) : sq[k] = x

Count(sq, x) == Cardinality({ k \in 1..Len(sq) : sq[k] = x })

\* a line without its leading blanks
RECURSIVE LStrip(_)
LStrip(line) ==
  IF line # << >> /\ Head(line) = " " THEN LStrip(Tail(line)) ELSE line

----------------------------------------------------------------------------
(* C1  Match-and-patch *)

\* C1 as stated: when exactly one input line EQUALS MatchLiteral, at position
\* i, a successful run writes lines 1..i-1, the two insertion literals, the
\* replacement literal, lines i+1..end.  Refuted: a line that merely contains
\* MatchLiteral and stands earlier is the one that gets patched.
C1_AsStated ==
  (Succeeded /\ Cardinality(EqualSet(InputLinesOfRun)) = 1)
    => LET i == CHOOSE k \in EqualSet(InputLinesOfRun) : TRUE
       IN  /\ lines = PatchedAt(InputLinesOfRun, i)
           /\ disk = Join(PatchedAt(InputLinesOfRun, i))

\* C1 amended: when exactly one input line CONTAINS MatchLiteral, at position
\* i, a successful run writes lines 1..i-1 unchanged, then the two insertion
\* literals, then the replacement literal in place of line i, then lines
\* i+1..end unchanged and in order.
C1_MatchAndPatch ==
  (Succeeded /\ Cardinality(MatchSet(InputLinesOfRun)) = 1)
    => LET i == CHOOSE k \in MatchSet(InputLinesOfRun) : TRUE
       IN  /\ lines = PatchedAt(InputLinesOfRun, i)
           /\ disk = Join(PatchedAt(InputLinesOfRun, i))

\* a successful run whose single matching line has lines before and after it
C1_Witness ==
  /\ Succeeded
  /\ Cardinality(MatchSet(InputLinesOfRun)) = 1
  /\ matchIdx > 1
  /\ matchIdx < Len(InputLinesOfRun)

----------------------------------------------------------------------------
(* C2  No-match no-op *)

\* C2: when no line of the file contains MatchLiteral, splitting the content
\* and joining it again gives the content back, the text handed to the write
\* is the text read, and a run that meets no fault returns True, exits with
\* status 0 and leaves the file with the content it had.
C2_NoMatchNoOp ==
  (/\ pc \in { "split", "open_write", "write", "print_ok", "exited" }
   /\ err = "none"
   /\ MatchSet(InputLinesOfRun) = {})
    => /\ content = orig
       /\ pc = "split" => Join(Split(content)) = content
       /\ pc \in { "open_write", "write" }
            => (matchIdx = 0 /\ Join(lines) = content)
       /\ pc = "print_ok" => disk = orig
       /\ pc = "exited" => (result = "True" /\ exitCode = 0 /\ disk = orig)

\* a finished run over a file without a match that has an empty line and
\* ends with a line break
C2_Witness ==
  /\ pc = "exited"
  /\ Succeeded
  /\ MatchSet(InputLinesOfRun) = {}
  /\ Len(InputLinesOfRun) = 3
  /\ InputLinesOfRun[2] = << >>
  /\ InputLinesOfRun[3] = << >>
  /\ InputLinesOfRun[1] = MatchLiteralFolded

----------------------------------------------------------------------------
(* C3  First-match-only *)

\* C3: when MatchLiteral occurs on two or more lines, a successful run
\* patches the occurrence with the lowest position only: every later
\* occurrence is in the output verbatim, two positions further down, and
\* nothing else differs.
C3_FirstMatchOnly ==
  (Succeeded /\ Cardinality(MatchSet(InputLinesOfRun)) >= 2)
    => LET first == Min(MatchSet(InputLinesOfRun))
       IN  /\ matchIdx = first
           /\ lines = PatchedAt(InputLinesOfRun, first)
           /\ \A j \in MatchSet(InputLinesOfRun) :
                j > first => lines[j + 2] = InputLinesOfRun[j]
           /\ \A j \in 1..(first - 1) : lines[j] = InputLinesOfRun[j]

\* a successful run over a file with two occurrences, the first not on the
\* first line
C3_Witness ==
  /\ Succeeded
  /\ Cardinality(MatchSet(InputLinesOfRun)) >= 2
  /\ matchIdx > 1

----------------------------------------------------------------------------
(* C4  Unreadable path *)

\* the open for reading raised: an exception was caught and the file was
\* never opened
ReadOpenFaulted == err # "none" /\ ~Has(log, "open_r")

\* C4: when the open for reading faults (no such file, or permission
\* denied), the function returns False, the exit status is 1, the file is
\* never opened for writing, and nothing is created or changed at the path.
C4_UnreadablePath ==
  ReadOpenFaulted
    => /\ err \in { "FileNotFoundError", "PermissionError" }
       /\ ~Has(log, "open_w")
       /\ exists = origExists
       /\ disk = orig
       /\ pc \in { "except", "returned", "exited" }
       /\ pc \in { "returned", "exited" } => result = "False"
       /\ pc = "exited" => exitCode = 1

\* a finished run on a path where no file exists
C4_Witness ==
  /\ pc = "exited"
  /\ ReadOpenFaulted
  /\ ~origExists
  /\ err = "FileNotFoundError"

----------------------------------------------------------------------------
(* C5  Second run *)

\* two runs in a row have finished and both returned True
TwoRunsSucceeded ==
  /\ pc = "exited"
  /\ runs = 2
  /\ rets = << "True", "True" >>

\* C5 as stated: the second run on the file a first run produced leaves the
\* file as the first run left it.  Refuted: with two matching lines in the
\* initial file the second run patches the second one.
C5_AsStated == TwoRunsSucceeded => hist[3] = hist[2]

\* C5 amended: when the initial file had at most one line containing
\* MatchLiteral, the file a first successful run produced has no line that
\* matches, and a second run that meets no fault leaves it exactly as the
\* first run left it and returns True with exit status 0.
C5_SecondRunNoOp ==
  (TwoRunsSucceeded /\ Cardinality(MatchSet(Split(hist[1]))) <= 1)
    => /\ MatchSet(Split(hist[2])) = {}
       /\ matchIdx = 0
       /\ hist[3] = hist[2]
       /\ result = "True"
       /\ exitCode = 0

\* a second successful run on a file whose one match the first run patched
C5_Witness ==
  /\ TwoRunsSucceeded
  /\ Cardinality(MatchSet(Split(hist[1]))) = 1
  /\ hist[2] # hist[1]

----------------------------------------------------------------------------
(* C6  Concrete scenario *)

\* the run started from the file "a", MatchLiteral, "b" and succeeded
ScenarioRun == Succeeded /\ orig = TextOf(ScenarioInput)

\* C6 as stated: the output lines are "a", the two insertion texts and the
\* replacement text WITHOUT leading whitespace, "b".  Refuted: the script's
\* literals start with six blanks.
C6_AsStated ==
  ScenarioRun
    => lines = << << "a" >>, LStrip(InsertionLiteral0),
                  LStrip(InsertionLiteral1), LStrip(ReplacementLiteral),
                  << "b" >> >>

\* C6 amended: for the input lines "a", MatchLiteral, "b" the output lines
\* are "a", "      // Clean up potential spacing in month names",
\* "      month = month.replace(/\s+/g, '').toLowerCase();",
\* "      const monthNum = months[month] || '01';", "b": each of the three
\* new lines is the claimed text behind six blanks.
C6_ConcreteScenario ==
  ScenarioRun
    => /\ lines = << << "a" >>, InsertionLiteral0, InsertionLiteral1,
                     ReplacementLiteral, << "b" >> >>
       /\ disk = TextOf(lines)
       /\ \A k \in 2..4 :
            /\ SubSeq(lines[k], 1, 6) = << " ", " ", " ", " ", " ", " " >>
            /\ Len(LStrip(lines[k])) = Len(lines[k]) - 6

\* the scenario has run to its end
C6_Witness == ScenarioRun /\ pc = "exited" /\ matchIdx = 2

----------------------------------------------------------------------------
(* C7  What counts as a match *)

\* the scan loop of this run has just ended
Scanned == pc = "open_write"

\* position in the output of the input line at position k
Shifted(k) == IF matchIdx # 0 /\ k > matchIdx THEN k + 2 ELSE k

\* C7 as stated: the patch site is the first line EQUAL to MatchLiteral, and
\* a line that differs from it in any way is no patch site and stays as it
\* is.  Refuted: an indented line holding the literal is patched.
C7_AsStated ==
  Scanned
    => LET es == EqualSet(InputLinesOfRun)
       IN  /\ matchIdx = (IF es = {} THEN 0 ELSE Min(es))
           /\ \A k \in 1..Len(InputLinesOfRun) :
                k \notin es
                  => (k # matchIdx /\ lines[Shifted(k)] = InputLinesOfRun[k])

\* C7 amended: the patch site is the first position whose line CONTAINS
\* MatchLiteral as a substring, compared without trimming and without
\* case-folding; a line that does not contain it (a case variant, say) is no
\* patch site and is left unchanged.
C7_SubstringMatching ==
  Scanned
    => LET ms == MatchSet(InputLinesOfRun)
       IN  /\ matchIdx = (IF ms = {} THEN 0 ELSE Min(ms))
           /\ \A k \in 1..Len(InputLinesOfRun) :
                k \notin ms
                  => (k # matchIdx /\ lines[Shifted(k)] = InputLinesOfRun[k])

\* the scan passed over a case variant and broke out at an indented line,
\* with a line equal to the literal further down
C7_Witness ==
  /\ Scanned
  /\ Len(InputLinesOfRun) = 3
  /\ InputLinesOfRun[1] = MatchLiteralFolded
  /\ InputLinesOfRun[2] = IndentedMatch
  /\ InputLinesOfRun[3] = MatchLiteral
  /\ matchIdx = 2

----------------------------------------------------------------------------
(* C8  Outcome signalling *)

\* C8: a finished run shows exactly one of two outcomes.  Without a fault:
\* the success line alone is printed, the result is True, the exit status 0,
\* match or no match.  With a fault during read or write: the error line
\* alone is printed, the result is False, the exit status 1.  Every fault
\* ends in the handler, at most one line is printed, and the success line
\* never goes with False.
C8_OutcomeSignalling ==
  /\ Len(out) <= 1
  /\ (err # "none") => pc \in { "except", "returned", "exited" }
  /\ result = "False" => ~Has(out, "Successfully updated")
  /\ pc \in { "returned", "exited" }
       => /\ Len(out) = 1
          /\ err = "none"
               => (out = << "Successfully updated" >> /\ result = "True")
          /\ err # "none"
               => (out = << "Error updating file" >> /\ result = "False")
  /\ pc = "exited" => exitCode = (IF err = "none" THEN 0 ELSE 1)
  /\ pc # "exited" => exitCode = -1

\* a run that faulted in the write has finished
C8_Witness ==
  /\ pc = "exited"
  /\ err = "OSError"
  /\ Has(log, "open_w")
  /\ exitCode = 1

----------------------------------------------------------------------------
(* C9  Read before write *)

\* the file operations of a run without a fault, in order
FullLog == << "open_r", "read", "close_r", "open_w", "write", "close_w" >>

IsPrefix(a, b) == Len(a) <= Len(b) /\ a = SubSeq(b, 1, Len(a))

\* C9: the file is opened for reading, read and closed before it is opened
\* for writing; the truncating open happens at most once in a run and only
\* after read and scan are over without a fault, so the file differs from
\* what the run found only if the read succeeded.  When the write faults
\* after a successful read the run returns False, nothing is retried and
\* nothing restored: the file keeps what the failed write left in it.
C9_ReadBeforeWrite ==
  /\ \/ IsPrefix(log, FullLog)
     \/ log = << "open_r", "close_r" >>
     \/ log = << "open_r", "read", "close_r", "open_w", "close_w" >>
  /\ Count(log, "open_w") <= 1
  /\ Has(log, "open_w")
       => /\ SubSeq(log, 1, 3) = << "open_r", "read", "close_r" >>
          /\ pc \in { "write", "print_ok", "except", "returned", "exited" }
          /\ content = orig
          /\ pc = "write" => lines = Scan(Split(content)).lines
  /\ (disk # orig \/ exists # origExists) => Has(log, "open_w")
  /\ (err # "none" /\ Has(log, "open_w"))
       => /\ disk \in LeftBehind(Join(lines))
          /\ pc \in { "returned", "exited" } => result = "False"
          /\ pc = "exited" => exitCode = 1

\* the write faulted in a run that had found a match, and the finished run
\* left a file that is neither the original nor the patched text
C9_Witness ==
  /\ pc = "exited"
  /\ err = "OSError"
  /\ Has(log, "open_w")
  /\ matchIdx # 0
  /\ disk # orig
  /\ disk # Join(lines)

----------------------------------------------------------------------------
(* C10  Counting *)

Max0(n) == IF n < 0 THEN 0 ELSE n

\* every run so far has finished and returned True
AllRunsSucceeded ==
  /\ pc = "exited"
  /\ Len(rets) = runs
  /\ \A k \in 1..runs : rets[k] = "True"

\* C10: a successful run writes as many lines as it read plus 2 when some
\* line matched, and as many as it read otherwise; of k >= 1 matching lines
\* k-1 are left, none of the three new lines matching; so after n successful
\* runs in a row the first n occurrences are patched, one per run.
C10_Counting ==
  /\ Succeeded
       => LET k == Cardinality(MatchSet(InputLinesOfRun))
          IN  /\ Len(lines) = Len(InputLinesOfRun) + (IF k >= 1 THEN 2 ELSE 0)
              /\ Cardinality(MatchSet(lines)) = Max0(k - 1)
              /\ Len(Split(disk)) = Len(lines)
              /\ k >= 1 => \A j \in matchIdx..(matchIdx + 2) :
                              ~Contains(lines[j], MatchLiteral)
  /\ AllRunsSucceeded
       => LET k0 == Cardinality(MatchSet(Split(hist[1])))
              n  == IF runs < k0 THEN runs ELSE k0
          IN  /\ Cardinality(MatchSet(Split(disk))) = k0 - n
              /\ Len(Split(disk)) = Len(Split(hist[1])) + 2 * n
              /\ \A j \in MatchSet(Split(disk)) :
                   j - 2 * n \in MatchSet(Split(hist[1]))

\* two successful runs in a row over a file with three matching lines
C10_Witness ==
  /\ AllRunsSucceeded
  /\ runs = 2
  /\ Cardinality(MatchSet(Split(hist[1]))) = 3
  /\ Cardinality(MatchSet(Split(disk))) = 1

====
